---------------------------- MODULE Spec2Model ----------------------------
(***************************************************************************)
(* A model of the simplecolor crate: the Channel trait and its six         *)
(* primitive implementations (channel.rs), the crate-private clamp helpers *)
(* (lib.rs), and the Rgb / Rgba colour types with their Color operations   *)
(* and piecewise arithmetic operators (rgb.rs, rgba.rs).                   *)
(*                                                                         *)
(* Representation of channel values.                                       *)
(*   - An unsigned integer of width W is a little-endian sequence of W/8   *)
(*     limbs in base 2^8, so that all four widths keep their exact range   *)
(*     [0, 2^W - 1] and arithmetic is limb arithmetic with carry/borrow.   *)
(*   - A float is an extended rational n/d in lowest terms with d >= 0:    *)
(*     d > 0 is a finite value, 1/0 is +inf, -1/0 is -inf and 0/0 is NaN.  *)
(*     Rounding and the sign of zero are not modelled; f32 and f64 differ  *)
(*     only in their type tag.                                             *)
(* A call that panics (assertion failure, unwrap of None, arithmetic       *)
(* overflow with overflow checks on, integer division by zero) yields the  *)
(* value Panic instead of a channel or colour.                             *)
(***************************************************************************)
EXTENDS Integers, Sequences, FiniteSets

VARIABLES
    chan,              \* the channel type T the caller's colours are instantiated at
    overflow_checks,   \* build profile: TRUE = integer overflow panics, FALSE = it wraps
    col,               \* the Rgb<T> value the caller holds
    cola,              \* the Rgba<T> value the caller holds
    last               \* the most recent call: its name, arguments and returned value

vars == <<chan, overflow_checks, col, cola, last>>

(***************************************************************************)
(* Bounds of the model (sizes of the input sets).                          *)
(***************************************************************************)
MaxSmall == 1      \* integer channel inputs are 0..MaxSmall, MAX-1 and MAX
MaxHalf == 3       \* finite float channel inputs are k/2 for k in -1..MaxHalf
MaxOperand == 2    \* right-hand operands and bounds are built from the channel
                   \* values k (integers) or k/2 (floats) for k in 0..MaxOperand

IntTypes   == {"u8", "u16", "u32", "u64"}
FloatTypes == {"f32", "f64"}
ChannelTypes == IntTypes \cup FloatTypes

\* the outcome of a call that does not return; why names the failing check
Panic(why) == [k |-> "panic", why |-> why]

IsPanic(x) == "k" \in DOMAIN x /\ x.k = "panic"

(***************************************************************************)
(* Unsigned integers as limb sequences.                                    *)
(***************************************************************************)
Base == 2^8

NumLimbs(t) == CASE t = "u8"  -> 1
                 [] t = "u16" -> 2
                 [] t = "u32" -> 4
                 [] t = "u64" -> 8

IntVal(l) == [k |-> "int", l |-> l]

\* the limbs of the small number v (0 <= v < Base) at width t
SmallLimbs(t, v) == [i \in 1..NumLimbs(t) |-> IF i = 1 THEN v ELSE 0]

\* I::max_value()
max_value(t) == IntVal([i \in 1..NumLimbs(t) |-> Base - 1])

RECURSIVE LimbsCmp(_, _, _)
\* compares limbs i..1 of a and b, most significant first
LimbsCmp(a, b, i) ==
    IF i = 0 THEN "Equal"
    ELSE IF a[i] < b[i] THEN "Less"
    ELSE IF a[i] > b[i] THEN "Greater"
    ELSE LimbsCmp(a, b, i - 1)

RECURSIVE SubFrom(_, _, _, _)
\* limbs i.. of a - b given the borrow taken from limb i, followed by the
\* borrow out of the top limb
SubFrom(a, b, i, borrow) ==
    IF i > Len(a) THEN <<borrow>>
    ELSE CHOOSE s \in {<<d % Base>> \o SubFrom(a, b, i + 1, IF d < 0 THEN 1 ELSE 0) :
                          d \in {a[i] - b[i] - borrow}} : TRUE

\* a - b modulo Base^Len(a)
LimbsSub(a, b) == SubSeq(SubFrom(a, b, 1, 0), 1, Len(a))

RECURSIVE AddFrom(_, _, _, _)
\* limbs i.. of a + b given the carry into limb i, followed by the carry out
\* of the top limb
AddFrom(a, b, i, carry) ==
    IF i > Len(a) THEN <<carry>>
    ELSE CHOOSE s \in {<<d % Base>> \o AddFrom(a, b, i + 1, d \div Base) :
                          d \in {a[i] + b[i] + carry}} : TRUE


RECURSIVE ColumnSum(_, _, _, _, _)
\* sum of a[i] * b[k+1-i] over i = from..to
ColumnSum(a, b, k, from, to) ==
    IF from > to THEN 0
    ELSE a[from] * b[k + 1 - from] + ColumnSum(a, b, k, from + 1, to)

Max(x, y) == IF x > y THEN x ELSE y
Min(x, y) == IF x < y THEN x ELSE y

RECURSIVE MulFrom(_, _, _, _)
\* limbs k .. 2*Len(a) of the schoolbook product a * b given the carry into
\* column k
MulFrom(a, b, k, carry) ==
    IF k > 2 * Len(a) THEN <<>>
    ELSE CHOOSE s \in {<<d % Base>> \o MulFrom(a, b, k + 1, d \div Base) :
                          d \in {ColumnSum(a, b, k, Max(1, k + 1 - Len(a)), Min(Len(a), k))
                                 + carry}} : TRUE

\* bit j (0 = least significant) of a
LimbsBit(a, j) == (a[(j \div 8) + 1] \div (2^(j % 8))) % 2

\* 2 * a + bit, in Len(a) limbs (the caller leaves room in the top limb)
LimbsShl1(a, bit) ==
    [i \in 1..Len(a) |->
        ((2 * a[i]) % Base) + (IF i = 1 THEN bit ELSE (2 * a[i-1]) \div Base)]

\* one step of binary long division by b: shift the next bit of the
\* dividend into the remainder and subtract the divisor if it fits.
\* p.q is the quotient so far (Len(b) limbs), p.r the remainder (one more)
DivStep(p, b, bit) ==
    LET bx == [i \in 1..Len(b) + 1 |-> IF i <= Len(b) THEN b[i] ELSE 0]
    IN  CHOOSE s \in {IF LimbsCmp(r2, bx, Len(b) + 1) # "Less"
                      THEN [q |-> LimbsShl1(p.q, 1), r |-> LimbsSub(r2, bx)]
                      ELSE [q |-> LimbsShl1(p.q, 0), r |-> r2] :
                      r2 \in {LimbsShl1(p.r, bit)}} : TRUE

RECURSIVE DivBits(_, _, _, _, _)
\* the long division of a by b continued from state p over the bits lo..hi
\* of a, counted from the most significant bit (bit 1); the range is halved
\* so that the evaluation depth stays logarithmic in the width
DivBits(p, a, b, lo, hi) ==
    IF lo = hi
    THEN DivStep(p, b, LimbsBit(a, 8 * Len(a) - lo))
    ELSE LET mid == (lo + hi) \div 2
         IN  CHOOSE s \in {DivBits(h, a, b, mid + 1, hi) :
                              h \in {DivBits(p, a, b, lo, mid)}} : TRUE

RECURSIVE ShortDivFrom(_, _, _, _)
\* limbs i..1 of floor(a / d) for a one-limb divisor d, most significant
\* first, given the remainder carried down into limb i
ShortDivFrom(a, d, i, rem) ==
    IF i = 0 THEN <<>>
    ELSE CHOOSE s \in {ShortDivFrom(a, d, i - 1, x % d) \o <<x \div d>> :
                          x \in {rem * Base + a[i]}} : TRUE

\* floor(a / b) for b # 0: zero when a < b, short division when the divisor
\* fits in one limb, binary long division otherwise
LimbsDiv(a, b) ==
    IF LimbsCmp(a, b, Len(a)) = "Less"
    THEN [i \in 1..Len(a) |-> 0]
    ELSE IF \A i \in 2..Len(b) : b[i] = 0
    THEN ShortDivFrom(a, b[1], Len(a), 0)
    ELSE DivBits([q |-> [i \in 1..Len(a) |-> 0], r |-> [i \in 1..Len(a) + 1 |-> 0]],
                 a, b, 1, 8 * Len(a)).q

LimbsIsZero(a) == \A i \in 1..Len(a) : a[i] = 0

(***************************************************************************)
(* Floats as extended rationals.                                           *)
(***************************************************************************)
RECURSIVE GCD(_, _)
GCD(a, b) == IF b = 0 THEN a ELSE GCD(b, a % b)

Abs(n) == IF n < 0 THEN -n ELSE n
Sign(n) == IF n < 0 THEN -1 ELSE IF n > 0 THEN 1 ELSE 0

\* the float n/d, in lowest terms with a non-negative denominator
Flt(n, d) ==
    IF d = 0
    THEN [k |-> "flt", n |-> Sign(n), d |-> 0]
    ELSE LET g == GCD(Abs(n), Abs(d))
         IN  [k |-> "flt", n |-> (Sign(d) * n) \div g, d |-> Abs(d) \div g]

NaN    == Flt(0, 0)
PosInf == Flt(1, 0)
NegInf == Flt(-1, 0)

IsNaN(x)    == x.k = "flt" /\ x.n = 0 /\ x.d = 0
IsFinite(x) == x.k = "flt" /\ x.d > 0

FltNeg(a) == Flt(-a.n, a.d)

FltAdd(a, b) ==
    IF IsNaN(a) \/ IsNaN(b) THEN NaN
    ELSE IF a.d = 0 /\ b.d = 0 THEN (IF a.n = b.n THEN a ELSE NaN)
    ELSE IF a.d = 0 THEN a
    ELSE IF b.d = 0 THEN b
    ELSE Flt(a.n * b.d + b.n * a.d, a.d * b.d)

FltSub(a, b) == FltAdd(a, FltNeg(b))

FltMul(a, b) == Flt(a.n * b.n, a.d * b.d)

\* x / 0 is an infinity of the sign of x (0 / 0 is NaN), x / inf is 0
FltDiv(a, b) ==
    IF IsNaN(a) \/ IsNaN(b) THEN NaN
    ELSE IF a.d = 0 /\ b.d = 0 THEN NaN
    ELSE IF a.d = 0 THEN Flt(a.n * (IF b.n < 0 THEN -1 ELSE 1), 0)
    ELSE IF b.d = 0 THEN Flt(0, 1)
    ELSE Flt(a.n * b.d, a.d * b.n)

\* f32/f64 partial_cmp: None when either side is NaN
FltCmp(a, b) ==
    IF IsNaN(a) \/ IsNaN(b) THEN "None"
    ELSE LET l == IF a.d = 0 /\ b.d = 0 THEN a.n ELSE a.n * b.d
             r == IF a.d = 0 /\ b.d = 0 THEN b.n ELSE b.n * a.d
         IN  IF l < r THEN "Less" ELSE IF l > r THEN "Greater" ELSE "Equal"

(***************************************************************************)
(* The numeric operations a Channel type brings with it (Num, PartialOrd). *)
(***************************************************************************)
\* T::zero()
zero(t) == IF t \in IntTypes THEN IntVal(SmallLimbs(t, 0)) ELSE Flt(0, 1)

\* T::one()
one(t) == IF t \in IntTypes THEN IntVal(SmallLimbs(t, 1)) ELSE Flt(1, 1)

\* a.partial_cmp(&b): "Less", "Equal", "Greater" or "None"
partial_cmp(a, b) ==
    IF a.k = "int" THEN LimbsCmp(a.l, b.l, Len(a.l)) ELSE FltCmp(a, b)

\* the integer whose exact result has the limbs p, of which the low n fit
\* the type: with overflow checks (oc) a result that does not fit panics,
\* without them it wraps
Fit(oc, p, n) ==
    IF oc /\ \E i \in n + 1 .. Len(p) : p[i] # 0
    THEN Panic("overflow")
    ELSE IntVal(SubSeq(p, 1, n))

\* a + b on the primitive type; oc = overflow checks are compiled in
ChannelAdd(oc, a, b) ==
    IF a.k = "int"
    THEN CHOOSE s \in {Fit(oc, p, Len(a.l)) : p \in {AddFrom(a.l, b.l, 1, 0)}} : TRUE
    ELSE FltAdd(a, b)

\* a - b on the primitive type
ChannelSub(oc, a, b) ==
    IF a.k = "int"
    THEN CHOOSE s \in {Fit(oc, p, Len(a.l)) : p \in {SubFrom(a.l, b.l, 1, 0)}} : TRUE
    ELSE FltSub(a, b)

\* a * b on the primitive type
ChannelMul(oc, a, b) ==
    IF a.k = "int"
    THEN CHOOSE s \in {Fit(oc, p, Len(a.l)) : p \in {MulFrom(a.l, b.l, 1, 0)}} : TRUE
    ELSE FltMul(a, b)

\* a / b on the primitive type: integer division by zero always panics
ChannelDiv(oc, a, b) ==
    IF a.k = "int"
    THEN IF LimbsIsZero(b.l)
         THEN Panic("divide by zero")
         ELSE IntVal(LimbsDiv(a.l, b.l))
    ELSE FltDiv(a, b)

(***************************************************************************)
(* lib.rs: the crate-private clamp functions.                              *)
(***************************************************************************)
None == [k |-> "none"]

\* std::cmp::partial_min: the first argument when the two compare equal
partial_min(v1, v2) ==
    LET c == partial_cmp(v1, v2)
    IN  IF c \in {"Less", "Equal"} THEN v1
        ELSE IF c = "Greater" THEN v2
        ELSE None

\* std::cmp::partial_max: the second argument when the two compare equal
partial_max(v1, v2) ==
    LET c == partial_cmp(v1, v2)
    IN  IF c \in {"Equal", "Less"} THEN v2
        ELSE IF c = "Greater" THEN v1
        ELSE None

\* max >= min
ge(a, b) == partial_cmp(a, b) \in {"Greater", "Equal"}

\* a <= b
le(a, b) == partial_cmp(a, b) \in {"Less", "Equal"}

\* a < b
lt(a, b) == partial_cmp(a, b) = "Less"

\* a > b
gt(a, b) == partial_cmp(a, b) = "Greater"

\* a clamp that takes the larger of (x, max) and then the smaller with min
clamp_max_first(x, min, max) ==
    IF ~ge(max, min) THEN Panic("assert")
    ELSE LET y == partial_max(x, max)
         IN  IF y = None THEN Panic("unwrap")
             ELSE LET z == partial_min(y, min)
                  IN  IF z = None THEN Panic("unwrap") ELSE z

\* a clamp written with comparisons, which lets an incomparable x through
clamp_by_comparison(x, min, max) ==
    IF ~ge(max, min) THEN Panic("assert")
    ELSE IF lt(x, min) THEN min
    ELSE IF gt(x, max) THEN max
    ELSE x

\* a clamp that does not check the order of its bounds
clamp_unasserted(x, min, max) ==
    LET y == partial_min(x, max)
    IN  IF y = None THEN Panic("unwrap")
        ELSE LET z == partial_max(y, min)
             IN  IF z = None THEN Panic("unwrap") ELSE z

clamp(x, min, max) ==
    IF ~ge(max, min) THEN Panic("assert")
    ELSE LET y == partial_min(x, max)
         IN  IF y = None THEN Panic("unwrap")
             ELSE LET z == partial_max(y, min)
                  IN  IF z = None THEN Panic("unwrap") ELSE z

clamp_to_zero_one(t, x) == clamp(x, zero(t), one(t))

(***************************************************************************)
(* lib.rs: integral_to_float.  The floats it works with are binary floats  *)
(* with a significand of 24 bits (f32) or 53 bits (f64): the value         *)
(* m * 2^e with 2^(p-1) <= m < 2^p, or zero (m = 0, e = 0).  The cast of   *)
(* an integer and the division both round to the nearest such float, ties  *)
(* to the even significand.  The values are non-negative and far from the  *)
(* ends of the exponent range.  A significand is kept as the pair of its   *)
(* bits 27.. (hi) and its bits 0..26 (lo).                                 *)
(***************************************************************************)
\* the number of significand bits of the float type ft
Significand(ft) == IF ft = "f32" THEN 24 ELSE 53

\* a at the width of w limbs
Pad(a, w) == [i \in 1..w |-> IF i <= Len(a) THEN a[i] ELSE 0]

\* bit j of a, zero outside a
BitAt(a, j) == IF j >= 0 /\ j < 8 * Len(a) THEN LimbsBit(a, j) ELSE 0

\* limb i of a, zero outside a
LimbAt(a, i) == IF i >= 1 /\ i <= Len(a) THEN a[i] ELSE 0

\* a * 2^n in Len(a) limbs (the caller leaves room): limb i takes the low
\* bits of the limb n \div 8 places down and the high bits of the one below
LimbsShl(a, n) ==
    [i \in 1..Len(a) |->
        ((LimbAt(a, i - (n \div 8)) * 2^(n % 8)) % Base)
        + (LimbAt(a, i - (n \div 8) - 1) \div 2^(8 - (n % 8)))]

\* the index of the highest limb of a that is not zero, a # 0
TopLimb(a) ==
    CHOOSE i \in 1..Len(a) : a[i] # 0 /\ \A j \in i + 1..Len(a) : a[j] = 0

\* the number of bits of the limb v, 0 < v < Base
LimbLen(v) == CHOOSE n \in 1..8 : 2^(n - 1) <= v /\ v < 2^n

\* the number of bits of a: 0 for zero, else one more than the index of the
\* highest bit set
BitLen(a) ==
    IF LimbsIsZero(a) THEN 0
    ELSE CHOOSE n \in {8 * (i - 1) + LimbLen(a[i]) : i \in {TopLimb(a)}} : TRUE

Half == 2^27

\* the number made of the 9 bits of a from bit j on (j may be negative):
\* they lie in the three limbs from the one that holds bit j
Bits9(a, j) ==
    ((LimbAt(a, (j \div 8) + 1) + Base * LimbAt(a, (j \div 8) + 2)
      + Base * Base * LimbAt(a, (j \div 8) + 3)) \div 2^(j % 8)) % 2^9

\* the number made of the 27 bits of a from bit j on
Bits27(a, j) == Bits9(a, j) + 2^9 * Bits9(a, j + 9) + 2^18 * Bits9(a, j + 18)

\* bit j of the pair x
PairBit(x, j) ==
    IF j < 27 THEN (x.lo \div 2^j) % 2
    ELSE IF j < 54 THEN (x.hi \div 2^(j - 27)) % 2
    ELSE 0

\* the 8 limbs of the pair x, x < 2^54
FromPair(x) ==
    [i \in 1..8 |->
        PairBit(x, 8 * i - 8) + 2 * PairBit(x, 8 * i - 7) + 4 * PairBit(x, 8 * i - 6)
        + 8 * PairBit(x, 8 * i - 5) + 16 * PairBit(x, 8 * i - 4)
        + 32 * PairBit(x, 8 * i - 3) + 64 * PairBit(x, 8 * i - 2)
        + 128 * PairBit(x, 8 * i - 1)]

\* 2 * x + bit
PairDouble(x, bit) ==
    [hi |-> 2 * x.hi + (2 * x.lo + bit) \div Half, lo |-> (2 * x.lo + bit) % Half]

PairGe(x, y) == x.hi > y.hi \/ (x.hi = y.hi /\ x.lo >= y.lo)

\* x - y for x >= y
PairSub(x, y) ==
    [hi |-> x.hi - y.hi - (IF x.lo < y.lo THEN 1 ELSE 0), lo |-> (x.lo - y.lo) % Half]

\* x + 1
PairSucc(x) ==
    IF x.lo + 1 = Half THEN [hi |-> x.hi + 1, lo |-> 0] ELSE [hi |-> x.hi, lo |-> x.lo + 1]

\* floor(x / 2^n), 0 < n < 27
PairShr(x, n) ==
    [hi |-> x.hi \div 2^n, lo |-> x.lo \div 2^n + (x.hi % 2^n) * 2^(27 - n)]

\* 2^p
PairPow(p) == IF p < 27 THEN [hi |-> 0, lo |-> 2^p] ELSE [hi |-> 2^(p - 27), lo |-> 0]

\* the float m * 2^e
Bin(m, e) == [k |-> "bin", m |-> m, e |-> e]

BinIsZero(x) == x.m.hi = 0 /\ x.m.lo = 0

\* the significand q of p bits plus one: a carry into bit p moves the
\* exponent up by one
RoundUp(p, q, e) ==
    CHOOSE f \in {IF PairGe(q1, PairPow(p)) THEN Bin(PairShr(q1, 1), e + 1) ELSE Bin(q1, e) :
                     q1 \in {PairSucc(q)}} : TRUE

\* q * 2^e rounded to nearest by what was dropped below q: half says that
\* the first dropped bit is set and rest that a later one is; a tie goes to
\* the even significand
Rounded(p, q, e, half, rest) ==
    IF half /\ (rest \/ q.lo % 2 = 1) THEN RoundUp(p, q, e) ELSE Bin(q, e)

\* the float of p significand bits nearest to the integer a of len bits:
\* its p highest bits (its bits moved up when it has fewer), rounded by the
\* bits below them
CastOfLen(p, a, len) ==
    IF len = 0 THEN Bin([hi |-> 0, lo |-> 0], 0)
    ELSE CHOOSE f \in {Rounded(p, q, len - p,
                               BitAt(a, len - p - 1) = 1,
                               \E j \in 0..len - p - 2 : LimbsBit(a, j) = 1) :
                          q \in {[hi |-> Bits27(a, len - p + 27),
                                  lo |-> Bits27(a, len - p)]}} : TRUE

\* num::traits::cast::<I, F>(x).unwrap(), F = ft: the float nearest to the
\* unsigned integer x (the cast of an unsigned integer never fails)
cast(ft, x) ==
    CHOOSE f \in {CHOOSE g \in {CastOfLen(p, a, len) : len \in {BitLen(a)}} : TRUE :
                     p \in {Significand(ft)}, a \in {x.l}} : TRUE

\* one step of the long division by den: the next bit of the quotient st.q
\* and what is left in st.r
QuotStep(st, den) ==
    CHOOSE s \in {IF PairGe(r2, den)
                  THEN [q |-> PairDouble(st.q, 1), r |-> PairSub(r2, den)]
                  ELSE [q |-> PairDouble(st.q, 0), r |-> r2] :
                     r2 \in {PairDouble(st.r, 0)}} : TRUE

RECURSIVE QuotSteps(_, _, _)
\* n steps of the long division; the steps are halved so that the
\* evaluation depth stays logarithmic
QuotSteps(st, den, n) ==
    IF n = 1 THEN QuotStep(st, den)
    ELSE CHOOSE s \in {QuotSteps(h, den, n - n \div 2) :
                          h \in {QuotSteps(st, den, n \div 2)}} : TRUE

\* the float nearest to (m / den) * 2^e for significands m and den of p
\* bits: the integer part of m / den (0 or 1) and what it leaves, then
\* p + 1 more bits of the quotient by long division.  The quotient has
\* n = 1 or 2 bits more than p; they and what the division leaves round it
RoundedQuotient(p, m, den, e) ==
    LET whole == PairGe(m, den)
        n == IF whole THEN 2 ELSE 1
        from == [q |-> [hi |-> 0, lo |-> IF whole THEN 1 ELSE 0],
                 r |-> IF whole THEN PairSub(m, den) ELSE m]
    IN  CHOOSE f \in {Rounded(p, PairShr(d.q, k), e - (p + 1) + k,
                              (d.q.lo \div 2^(k - 1)) % 2 = 1,
                              d.q.lo % 2^(k - 1) # 0 \/ d.r.hi # 0 \/ d.r.lo # 0) :
                         d \in {QuotSteps(from, den, p + 1)}, k \in {n}} : TRUE

\* the division x / y of two floats of p significand bits, x >= 0, y > 0
FltQuot(p, x, y) ==
    CHOOSE f \in {IF BinIsZero(u) THEN u ELSE RoundedQuotient(n, u.m, v.m, u.e - v.e) :
                     n \in {p}, u \in {x}, v \in {y}} : TRUE

\* an integral_to_float that forgets to scale by I::max_value()
integral_to_float_unscaled(ft, it, x) ==
    FltQuot(Significand(ft), cast(ft, x), cast(ft, one(it)))

\* integral_to_float::<I, F>(x) for the unsigned type I = it and F = ft
integral_to_float(ft, it, x) ==
    FltQuot(Significand(ft), cast(ft, x), cast(ft, max_value(it)))

\* partial_cmp of two such floats of one type: zero is below the others,
\* which are ordered by exponent and then by significand
QuotCmp(x, y) ==
    IF BinIsZero(x) \/ BinIsZero(y)
    THEN IF BinIsZero(x) /\ BinIsZero(y) THEN "Equal"
         ELSE IF BinIsZero(x) THEN "Less" ELSE "Greater"
    ELSE IF x.e < y.e THEN "Less"
    ELSE IF x.e > y.e THEN "Greater"
    ELSE IF x.m = y.m THEN "Equal"
    ELSE IF PairGe(x.m, y.m) THEN "Greater" ELSE "Less"

(***************************************************************************)
(* channel.rs: the Channel trait for u8, u16, u32, u64, f32 and f64.       *)
(***************************************************************************)
\* a float normalised that forgets to clamp, like the integer one
normalised_unclamped(t, x) == x

normalised(t, x) ==
    IF t \in IntTypes THEN x ELSE clamp_to_zero_one(t, x)

\* an integer inverted that negates (0 - x) instead of complementing
inverted_negating(t, oc, x) ==
    IF t \in IntTypes
    THEN ChannelSub(FALSE, zero(t), x)
    ELSE LET n == normalised(t, x)
         IN  IF IsPanic(n) THEN n ELSE ChannelSub(oc, one(t), n)

\* a float inverted that subtracts the value as it is, not normalised
inverted_unnormalised(t, oc, x) ==
    IF t \in IntTypes
    THEN ChannelSub(oc, max_value(t), x)
    ELSE ChannelSub(oc, one(t), x)

inverted(t, oc, x) ==
    IF t \in IntTypes
    THEN ChannelSub(oc, max_value(t), x)
    ELSE LET n == normalised(t, x)
         IN  IF IsPanic(n) THEN n ELSE ChannelSub(oc, one(t), n)

(***************************************************************************)
(* rgb.rs: struct Rgb<T> and its inherent methods.                         *)
(***************************************************************************)
with_components(r, g, b) == [r |-> r, g |-> g, b |-> b]

from_slice(c) == with_components(c[1], c[2], c[3])

to_slice(c) == <<c.r, c.g, c.b>>

new(t) == with_components(zero(t), zero(t), zero(t))

\* Default for Rgb
default(t) == new(t)

\* the getters
Rgb_r(c) == c.r
Rgb_g(c) == c.g
Rgb_b(c) == c.b

\* the setters: the colour after c.set_r(v), c.set_g(v), c.set_b(v)
set_r(c, v) == [c EXCEPT !.r = v]
set_g(c, v) == [c EXCEPT !.g = v]
\* a set_b that clamps a comparable float to [0, 1], as its doc comment says
set_b_clamped(c, v) ==
    [c EXCEPT !.b = IF v.k = "flt" /\ ~IsNaN(v)
                    THEN clamp(v, Flt(0, 1), Flt(1, 1))
                    ELSE v]

set_b(c, v) == [c EXCEPT !.b = v]

\* Rgb::components, as the tuple (r, g, b)
components(c) == <<c.r, c.g, c.b>>

\* a colour built from three channel computations, evaluated in argument
\* order: the first one that panics ends the call
RgbOf(r, g, b) ==
    IF IsPanic(r) THEN r
    ELSE IF IsPanic(g) THEN g
    ELSE IF IsPanic(b) THEN b
    ELSE with_components(r, g, b)

\* Rgb::<F>::from_integral_components::<I>(r, g, b), F = ft, I = it
from_integral_components(ft, it, r, g, b) ==
    with_components(integral_to_float(ft, it, r),
                    integral_to_float(ft, it, g),
                    integral_to_float(ft, it, b))

\* Rgb::<F>::from_integral_slice::<I>(c), F = ft, I = it
from_integral_slice(ft, it, c) ==
    with_components(integral_to_float(ft, it, c[1]),
                    integral_to_float(ft, it, c[2]),
                    integral_to_float(ft, it, c[3]))

(***************************************************************************)
(* lib.rs: trait Color<T>, and the colour types that implement it.         *)
(***************************************************************************)
\* the methods of trait Color
ColorOperations ==
    {"clamp_scalar", "clamp_color", "normalise", "invert",
     "luminance", "mix", "to_greyscale"}

\* the colour types of the crate
ColorTypes == {"Rgb", "Rgba"}

\* the trait methods each colour type provides: the crate's only
\* impl Color is the one for Rgb<T>; rgba.rs has the inherent impl,
\* Default and the four arithmetic operators
TraitOperations(ty) ==
    IF ty = "Rgb" THEN ColorOperations ELSE {}

(***************************************************************************)
(* rgb.rs: impl Color<T> for Rgb<T>.                                       *)
(***************************************************************************)
clamp_scalar(c, min, max) ==
    RgbOf(clamp(c.r, min, max),
          clamp(c.g, min, max),
          clamp(c.b, min, max))

\* a clamp_color that clamps every channel to the bounds of the red one
clamp_color_red_bounds(c, min, max) ==
    RgbOf(clamp(c.r, min.r, max.r),
          clamp(c.g, min.r, max.r),
          clamp(c.b, min.r, max.r))

clamp_color(c, min, max) ==
    RgbOf(clamp(c.r, min.r, max.r),
          clamp(c.g, min.g, max.g),
          clamp(c.b, min.b, max.b))

normalise(t, c) ==
    RgbOf(normalised(t, c.r), normalised(t, c.g), normalised(t, c.b))

invert(t, oc, c) ==
    RgbOf(inverted(t, oc, c.r), inverted(t, oc, c.g), inverted(t, oc, c.b))

(***************************************************************************)
(* rgb.rs: the piecewise arithmetic operators of Rgb<T>.                   *)
(***************************************************************************)
Rgb_add(oc, self, other) ==
    RgbOf(ChannelAdd(oc, self.r, other.r),
          ChannelAdd(oc, self.g, other.g),
          ChannelAdd(oc, self.b, other.b))

\* a division that divides the blue channel by the other's green one
Rgb_div_crossed(oc, self, other) ==
    RgbOf(ChannelDiv(oc, self.r, other.r),
          ChannelDiv(oc, self.g, other.g),
          ChannelDiv(oc, self.b, other.g))

Rgb_div(oc, self, other) ==
    RgbOf(ChannelDiv(oc, self.r, other.r),
          ChannelDiv(oc, self.g, other.g),
          ChannelDiv(oc, self.b, other.b))

Rgb_mul(oc, self, other) ==
    RgbOf(ChannelMul(oc, self.r, other.r),
          ChannelMul(oc, self.g, other.g),
          ChannelMul(oc, self.b, other.b))

Rgb_sub(oc, self, other) ==
    RgbOf(ChannelSub(oc, self.r, other.r),
          ChannelSub(oc, self.g, other.g),
          ChannelSub(oc, self.b, other.b))

(***************************************************************************)
(* rgb.rs: the remaining methods of impl Color<T> for Rgb<T>.              *)
(***************************************************************************)
\* T::zero(), whatever the colour ("TODO: implement")
luminance(t, c) == zero(t)

\* a mix that adds the other colour's channels one place along
mix_rotated(oc, self, other) ==
    Rgb_add(oc, self, with_components(other.g, other.b, other.r))

\* self + other
mix(oc, self, other) == Rgb_add(oc, self, other)

\* self.clone() ("TODO: implement")
to_greyscale(c) == c

(***************************************************************************)
(* rgba.rs: struct Rgba<T> and its piecewise arithmetic operators.         *)
(***************************************************************************)
Rgba_with_components(r, g, b, a) == [rgb |-> with_components(r, g, b), a |-> a]

\* Rgb::rgba
rgba(c, a) == Rgba_with_components(c.r, c.g, c.b, a)

\* Rgba::new: Rgb::new().rgba(T::one())
Rgba_new(t) == rgba(new(t), one(t))

\* Default for Rgba
Rgba_default(t) == Rgba_new(t)

Rgba_from_slice(c) == Rgba_with_components(c[1], c[2], c[3], c[4])

\* the getters
Rgba_r(c) == Rgb_r(c.rgb)
Rgba_g(c) == Rgb_g(c.rgb)
Rgba_b(c) == Rgb_b(c.rgb)
Rgba_a(c) == c.a

\* the setters: the colour after c.set_r(v), c.set_g(v), c.set_b(v), c.set_a(v)
Rgba_set_r(c, v) == [c EXCEPT !.rgb = set_r(c.rgb, v)]
Rgba_set_g(c, v) == [c EXCEPT !.rgb = set_g(c.rgb, v)]
Rgba_set_b(c, v) == [c EXCEPT !.rgb = set_b(c.rgb, v)]
Rgba_set_a(c, v) == [c EXCEPT !.a = v]

\* Rgba::rgb
Rgba_rgb(c) == c.rgb

\* Rgba::components, as the tuple (r, g, b, a)
Rgba_components(c) == <<Rgba_r(c), Rgba_g(c), Rgba_b(c), Rgba_a(c)>>

\* Rgba::<F>::from_integral_components::<I>(r, g, b, a), F = ft, I = it
Rgba_from_integral_components(ft, it, r, g, b, a) ==
    Rgba_with_components(integral_to_float(ft, it, r),
                         integral_to_float(ft, it, g),
                         integral_to_float(ft, it, b),
                         integral_to_float(ft, it, a))

\* Rgba::<F>::from_integral_slice::<I>(c), F = ft, I = it
Rgba_from_integral_slice(ft, it, c) ==
    Rgba_with_components(integral_to_float(ft, it, c[1]),
                         integral_to_float(ft, it, c[2]),
                         integral_to_float(ft, it, c[3]),
                         integral_to_float(ft, it, c[4]))

\* a to_slice that puts alpha first
Rgba_to_slice_alpha_first(c) == <<Rgba_a(c), Rgba_r(c), Rgba_g(c), Rgba_b(c)>>

Rgba_to_slice(c) == <<Rgba_r(c), Rgba_g(c), Rgba_b(c), Rgba_a(c)>>

\* receiver.rgba(arg) where the receiver and then the argument are computed
\* first and either computation may panic
RgbaOf(c, a) ==
    IF IsPanic(c) THEN c
    ELSE IF IsPanic(a) THEN a
    ELSE rgba(c, a)

\* an addition that carries the left operand's alpha over unchanged
Rgba_add_keeping_alpha(oc, self, other) ==
    RgbaOf(Rgb_add(oc, self.rgb, other.rgb), self.a)

Rgba_add(oc, self, other) ==
    RgbaOf(Rgb_add(oc, self.rgb, other.rgb), ChannelAdd(oc, self.a, other.a))

\* a division that leaves alpha alone when the divisor's alpha is zero
Rgba_div_guarded_alpha(oc, self, other) ==
    RgbaOf(Rgb_div(oc, self.rgb, other.rgb),
           IF other.a.k = "int" /\ LimbsIsZero(other.a.l)
           THEN self.a
           ELSE ChannelDiv(oc, self.a, other.a))

Rgba_div(oc, self, other) ==
    RgbaOf(Rgb_div(oc, self.rgb, other.rgb), ChannelDiv(oc, self.a, other.a))

Rgba_mul(oc, self, other) ==
    RgbaOf(Rgb_mul(oc, self.rgb, other.rgb), ChannelMul(oc, self.a, other.a))

Rgba_sub(oc, self, other) ==
    RgbaOf(Rgb_mul(oc, self.rgb, other.rgb), ChannelMul(oc, self.a, other.a))

(***************************************************************************)
(* The values the caller passes in.                                        *)
(***************************************************************************)
\* the small number v as a channel of type t
IntOf(t, v) == IntVal(SmallLimbs(t, v))

\* MAX - v as a channel of type t
IntBelowMax(t, v) == IntVal(LimbsSub(max_value(t).l, SmallLimbs(t, v)))

\* channel values for constructors and setters
Inputs(t) ==
    IF t \in IntTypes
    THEN {IntOf(t, v) : v \in 0..MaxSmall} \cup {IntBelowMax(t, 1), IntBelowMax(t, 0)}
    ELSE {Flt(n, 2) : n \in -1..MaxHalf} \cup {NaN, PosInf, NegInf}

\* 2^n + 1 in the integer type t
PowerPlusOne(t, n) ==
    IntVal([i \in 1..NumLimbs(t) |->
               (IF i = 1 THEN 1 ELSE 0) + (IF i = (n \div 8) + 1 THEN 2^(n % 8) ELSE 0)])

\* integers to convert: the channel inputs and, where the type is wide
\* enough, the first integer that an f32 cannot hold (MAX - 1 is one that
\* an f64 cannot hold when the type is u64)
IntegralInputs(it) ==
    Inputs(it) \cup (IF 8 * NumLimbs(it) > 24 THEN {PowerPlusOne(it, 24)} ELSE {})

\* the k-th operand channel value
Operand(t, k) == IF t \in IntTypes THEN IntOf(t, k) ELSE Flt(k, 2)

\* scalar bounds and alpha channels
Operands(t) == {Operand(t, k) : k \in 0..MaxOperand}

\* right-hand Rgb operands and colour bounds: the colours with three equal
\* channels and those with three consecutive operand values
OperandColors(t) ==
    {with_components(Operand(t, k), Operand(t, k), Operand(t, k)) : k \in 0..MaxOperand}
    \cup
    {with_components(Operand(t, k), Operand(t, k + 1), Operand(t, k + 2)) :
        k \in 0..MaxOperand}

\* divisors: the same colours and those with three descending operand
\* values, whose only zero channel is the last
DivisorColors(t) ==
    OperandColors(t)
    \cup
    {with_components(Operand(t, k + 2), Operand(t, k + 1), Operand(t, k)) :
        k \in 0..MaxOperand}

\* right-hand Rgba operands, chosen the same way
OperandColorsA(t) ==
    {Rgba_with_components(Operand(t, k), Operand(t, k), Operand(t, k), Operand(t, k)) :
        k \in 0..MaxOperand}
    \cup
    {Rgba_with_components(Operand(t, k), Operand(t, k + 1),
                          Operand(t, k + 2), Operand(t, k + 3)) : k \in 0..MaxOperand}

\* Rgba divisors
DivisorColorsA(t) ==
    OperandColorsA(t)
    \cup
    {Rgba_with_components(Operand(t, k + 3), Operand(t, k + 2),
                          Operand(t, k + 1), Operand(t, k)) : k \in 0..MaxOperand}

(***************************************************************************)
(* The caller: it holds one Rgb<T> value, col, and makes one call at a     *)
(* time; last records the call and what it returned until the returned     *)
(* temporary is dropped.                                                   *)
(***************************************************************************)
Idle == last.op = "none"

Init ==
    /\ chan \in ChannelTypes
    \* overflow checks only affect integer arithmetic
    /\ overflow_checks \in (IF chan \in IntTypes THEN BOOLEAN ELSE {FALSE})
    /\ col = new(chan)
    /\ cola = Rgba_new(chan)
    /\ last = [op |-> "none"]

\* let col = Rgb::new()
New ==
    /\ Idle
    /\ col' = new(chan)
    /\ last' = [op |-> "new", res |-> col']
    /\ UNCHANGED <<chan, overflow_checks, cola>>

\* let col = Rgb::with_components(r, g, b)
WithComponents ==
    /\ Idle
    /\ \E r \in Inputs(chan), g \in Inputs(chan), b \in Inputs(chan) :
          /\ col' = with_components(r, g, b)
          /\ last' = [op |-> "with_components", args |-> <<r, g, b>>, res |-> col']
    /\ UNCHANGED <<chan, overflow_checks, cola>>

\* let col = Rgb::from_slice([r, g, b])
FromSlice ==
    /\ Idle
    /\ \E r \in Inputs(chan), g \in Inputs(chan), b \in Inputs(chan) :
          /\ col' = from_slice(<<r, g, b>>)
          /\ last' = [op |-> "from_slice", args |-> <<r, g, b>>, res |-> col']
    /\ UNCHANGED <<chan, overflow_checks, cola>>

\* col.set_r(v)
SetR ==
    /\ Idle
    /\ \E v \in Inputs(chan) :
          /\ col' = set_r(col, v)
          /\ last' = [op |-> "set_r", arg |-> v, old |-> col]
    /\ UNCHANGED <<chan, overflow_checks, cola>>

\* col.set_g(v)
SetG ==
    /\ Idle
    /\ \E v \in Inputs(chan) :
          /\ col' = set_g(col, v)
          /\ last' = [op |-> "set_g", arg |-> v, old |-> col]
    /\ UNCHANGED <<chan, overflow_checks, cola>>

\* col.set_b(v)
SetB ==
    /\ Idle
    /\ \E v \in Inputs(chan) :
          /\ col' = set_b(col, v)
          /\ last' = [op |-> "set_b", arg |-> v, old |-> col]
    /\ UNCHANGED <<chan, overflow_checks, cola>>

\* col.clamp_scalar(min, max)
ClampScalar ==
    /\ Idle
    /\ \E min \in Operands(chan), max \in Operands(chan) :
          last' = [op |-> "clamp_scalar", min |-> min, max |-> max,
                   res |-> clamp_scalar(col, min, max)]
    /\ UNCHANGED <<chan, overflow_checks, col, cola>>

\* col.clamp_color(&min, &max)
ClampColor ==
    /\ Idle
    /\ \E min \in OperandColors(chan), max \in OperandColors(chan) :
          last' = [op |-> "clamp_color", min |-> min, max |-> max,
                   res |-> clamp_color(col, min, max)]
    /\ UNCHANGED <<chan, overflow_checks, col, cola>>

\* col.normalise()
Normalise ==
    /\ Idle
    /\ last' = [op |-> "normalise", res |-> normalise(chan, col)]
    /\ UNCHANGED <<chan, overflow_checks, col, cola>>

\* col.invert()
Invert ==
    /\ Idle
    /\ last' = [op |-> "invert", res |-> invert(chan, overflow_checks, col)]
    /\ UNCHANGED <<chan, overflow_checks, col, cola>>

\* col.luminance()
Luminance ==
    /\ Idle
    /\ last' = [op |-> "luminance", res |-> luminance(chan, col)]
    /\ UNCHANGED <<chan, overflow_checks, col, cola>>

\* col.mix(&other)
Mix ==
    /\ Idle
    /\ \E other \in OperandColors(chan) :
          last' = [op |-> "mix", other |-> other,
                   res |-> mix(overflow_checks, col, other)]
    /\ UNCHANGED <<chan, overflow_checks, col, cola>>

\* col.to_greyscale()
ToGreyscale ==
    /\ Idle
    /\ last' = [op |-> "to_greyscale", res |-> to_greyscale(col)]
    /\ UNCHANGED <<chan, overflow_checks, col, cola>>

\* col + other
Add ==
    /\ Idle
    /\ \E other \in OperandColors(chan) :
          last' = [op |-> "add", other |-> other,
                   res |-> Rgb_add(overflow_checks, col, other)]
    /\ UNCHANGED <<chan, overflow_checks, col, cola>>

\* col / other
Div ==
    /\ Idle
    /\ \E other \in DivisorColors(chan) :
          last' = [op |-> "div", other |-> other,
                   res |-> Rgb_div(overflow_checks, col, other)]
    /\ UNCHANGED <<chan, overflow_checks, col, cola>>

\* col * other
Mul ==
    /\ Idle
    /\ \E other \in OperandColors(chan) :
          last' = [op |-> "mul", other |-> other,
                   res |-> Rgb_mul(overflow_checks, col, other)]
    /\ UNCHANGED <<chan, overflow_checks, col, cola>>

\* col - other
Sub ==
    /\ Idle
    /\ \E other \in OperandColors(chan) :
          last' = [op |-> "sub", other |-> other,
                   res |-> Rgb_sub(overflow_checks, col, other)]
    /\ UNCHANGED <<chan, overflow_checks, col, cola>>

\* col.rgba(a) + other
AddA ==
    /\ Idle
    /\ \E a \in Operands(chan), other \in OperandColorsA(chan) :
          last' = [op |-> "rgba_add", self |-> rgba(col, a), other |-> other,
                   res |-> Rgba_add(overflow_checks, rgba(col, a), other)]
    /\ UNCHANGED <<chan, overflow_checks, col, cola>>

\* col.rgba(a) / other
DivA ==
    /\ Idle
    /\ \E a \in Operands(chan), other \in DivisorColorsA(chan) :
          last' = [op |-> "rgba_div", self |-> rgba(col, a), other |-> other,
                   res |-> Rgba_div(overflow_checks, rgba(col, a), other)]
    /\ UNCHANGED <<chan, overflow_checks, col, cola>>

\* col.rgba(a) * other
MulA ==
    /\ Idle
    /\ \E a \in Operands(chan), other \in OperandColorsA(chan) :
          last' = [op |-> "rgba_mul", self |-> rgba(col, a), other |-> other,
                   res |-> Rgba_mul(overflow_checks, rgba(col, a), other)]
    /\ UNCHANGED <<chan, overflow_checks, col, cola>>

\* col.rgba(a) - other
SubA ==
    /\ Idle
    /\ \E a \in Operands(chan), other \in OperandColorsA(chan) :
          last' = [op |-> "rgba_sub", self |-> rgba(col, a), other |-> other,
                   res |-> Rgba_sub(overflow_checks, rgba(col, a), other)]
    /\ UNCHANGED <<chan, overflow_checks, col, cola>>

(***************************************************************************)
(* The caller of Rgba<T>: it holds one Rgba<T> value, cola, which it       *)
(* constructs, reads and mutates through the inherent methods of rgba.rs.  *)
(***************************************************************************)
\* channel values for the constructors and setters of Rgba
RgbaInputs(t) ==
    IF t \in IntTypes
    THEN {IntOf(t, v) : v \in 0..MaxSmall} \cup {max_value(t)}
    ELSE {Flt(-1, 2), Flt(1, 2), Flt(MaxHalf, 2), NaN}

\* let cola = Rgba::new()
RgbaNew ==
    /\ Idle
    /\ cola' = Rgba_new(chan)
    /\ last' = [op |-> "rgba_new", res |-> cola']
    /\ UNCHANGED <<chan, overflow_checks, col>>

\* let cola = Rgba::default()
RgbaDefault ==
    /\ Idle
    /\ cola' = Rgba_default(chan)
    /\ last' = [op |-> "rgba_default", res |-> cola']
    /\ UNCHANGED <<chan, overflow_checks, col>>

\* let cola = Rgba::with_components(r, g, b, a)
RgbaWithComponents ==
    /\ Idle
    /\ \E r \in RgbaInputs(chan), g \in RgbaInputs(chan),
          b \in RgbaInputs(chan), a \in RgbaInputs(chan) :
          /\ cola' = Rgba_with_components(r, g, b, a)
          /\ last' = [op |-> "rgba_with_components", args |-> <<r, g, b, a>>, res |-> cola']
    /\ UNCHANGED <<chan, overflow_checks, col>>

\* let cola = Rgba::from_slice([r, g, b, a])
RgbaFromSlice ==
    /\ Idle
    /\ \E r \in RgbaInputs(chan), g \in RgbaInputs(chan),
          b \in RgbaInputs(chan), a \in RgbaInputs(chan) :
          /\ cola' = Rgba_from_slice(<<r, g, b, a>>)
          /\ last' = [op |-> "rgba_from_slice", args |-> <<r, g, b, a>>, res |-> cola']
    /\ UNCHANGED <<chan, overflow_checks, col>>

\* let cola = c.rgba(a) for an Rgb c
RgbRgba ==
    /\ Idle
    /\ \E r \in RgbaInputs(chan), g \in RgbaInputs(chan),
          b \in RgbaInputs(chan), a \in RgbaInputs(chan) :
          /\ cola' = rgba(with_components(r, g, b), a)
          /\ last' = [op |-> "rgba", self |-> with_components(r, g, b), arg |-> a,
                      res |-> cola']
    /\ UNCHANGED <<chan, overflow_checks, col>>

\* cola.set_r(v)
RgbaSetR ==
    /\ Idle
    /\ \E v \in RgbaInputs(chan) :
          /\ cola' = Rgba_set_r(cola, v)
          /\ last' = [op |-> "rgba_set_r", arg |-> v, old |-> cola]
    /\ UNCHANGED <<chan, overflow_checks, col>>

\* cola.set_g(v)
RgbaSetG ==
    /\ Idle
    /\ \E v \in RgbaInputs(chan) :
          /\ cola' = Rgba_set_g(cola, v)
          /\ last' = [op |-> "rgba_set_g", arg |-> v, old |-> cola]
    /\ UNCHANGED <<chan, overflow_checks, col>>

\* cola.set_b(v)
RgbaSetB ==
    /\ Idle
    /\ \E v \in RgbaInputs(chan) :
          /\ cola' = Rgba_set_b(cola, v)
          /\ last' = [op |-> "rgba_set_b", arg |-> v, old |-> cola]
    /\ UNCHANGED <<chan, overflow_checks, col>>

\* cola.set_a(v)
RgbaSetA ==
    /\ Idle
    /\ \E v \in RgbaInputs(chan) :
          /\ cola' = Rgba_set_a(cola, v)
          /\ last' = [op |-> "rgba_set_a", arg |-> v, old |-> cola]
    /\ UNCHANGED <<chan, overflow_checks, col>>

\* cola.r(), cola.g(), cola.b(), cola.a() read together
RgbaGetters ==
    /\ Idle
    /\ last' = [op |-> "rgba_getters",
                res |-> <<Rgba_r(cola), Rgba_g(cola), Rgba_b(cola), Rgba_a(cola)>>]
    /\ UNCHANGED <<chan, overflow_checks, col, cola>>

\* cola.rgb()
RgbaRgb ==
    /\ Idle
    /\ last' = [op |-> "rgba_rgb", res |-> Rgba_rgb(cola)]
    /\ UNCHANGED <<chan, overflow_checks, col, cola>>

\* cola.components()
RgbaComponents ==
    /\ Idle
    /\ last' = [op |-> "rgba_components", res |-> Rgba_components(cola)]
    /\ UNCHANGED <<chan, overflow_checks, col, cola>>

\* cola.to_slice()
RgbaToSlice ==
    /\ Idle
    /\ last' = [op |-> "rgba_to_slice", res |-> Rgba_to_slice(cola)]
    /\ UNCHANGED <<chan, overflow_checks, col, cola>>

(***************************************************************************)
(* The caller that converts integral components: for a float channel type  *)
(* it builds colours from unsigned integers of a type I of its choice.     *)
(***************************************************************************)
\* Rgb::<F>::from_integral_components::<I>(r, g, b)
FromIntegralComponents ==
    /\ Idle
    /\ chan \in FloatTypes
    /\ \E it \in IntTypes :
          \E r \in IntegralInputs(it), g \in IntegralInputs(it), b \in IntegralInputs(it) :
             last' = [op |-> "from_integral_components", int |-> it,
                      args |-> <<r, g, b>>,
                      res |-> from_integral_components(chan, it, r, g, b)]
    /\ UNCHANGED <<chan, overflow_checks, col, cola>>

\* Rgb::<F>::from_integral_slice::<I>([r, g, b])
FromIntegralSlice ==
    /\ Idle
    /\ chan \in FloatTypes
    /\ \E it \in IntTypes :
          \E r \in IntegralInputs(it), g \in IntegralInputs(it), b \in IntegralInputs(it) :
             last' = [op |-> "from_integral_slice", int |-> it,
                      args |-> <<r, g, b>>,
                      res |-> from_integral_slice(chan, it, <<r, g, b>>)]
    /\ UNCHANGED <<chan, overflow_checks, col, cola>>

\* Rgba::<F>::from_integral_components::<I>(r, g, b, a)
RgbaFromIntegralComponents ==
    /\ Idle
    /\ chan \in FloatTypes
    /\ \E it \in IntTypes :
          \E r \in IntegralInputs(it), g \in IntegralInputs(it),
             b \in IntegralInputs(it), a \in IntegralInputs(it) :
             last' = [op |-> "rgba_from_integral_components", int |-> it,
                      args |-> <<r, g, b, a>>,
                      res |-> Rgba_from_integral_components(chan, it, r, g, b, a)]
    /\ UNCHANGED <<chan, overflow_checks, col, cola>>

\* Rgba::<F>::from_integral_slice::<I>([r, g, b, a])
RgbaFromIntegralSlice ==
    /\ Idle
    /\ chan \in FloatTypes
    /\ \E it \in IntTypes :
          \E r \in IntegralInputs(it), g \in IntegralInputs(it),
             b \in IntegralInputs(it), a \in IntegralInputs(it) :
             last' = [op |-> "rgba_from_integral_slice", int |-> it,
                      args |-> <<r, g, b, a>>,
                      res |-> Rgba_from_integral_slice(chan, it, <<r, g, b, a>>)]
    /\ UNCHANGED <<chan, overflow_checks, col, cola>>

\* the value returned by the last call goes out of scope
Drop ==
    /\ ~Idle
    /\ last' = [op |-> "none"]
    /\ UNCHANGED <<chan, overflow_checks, col, cola>>

Next ==
    \/ New \/ WithComponents \/ FromSlice
    \/ SetR \/ SetG \/ SetB
    \/ ClampScalar \/ ClampColor \/ Normalise \/ Invert
    \/ Luminance \/ Mix \/ ToGreyscale
    \/ Add \/ Div \/ Mul \/ Sub
    \/ AddA \/ DivA \/ MulA \/ SubA
    \/ Drop

Spec == Init /\ [][Next]_vars

\* the calls that build a colour and those that compute one channel by channel
NextPiecewise ==
    \/ New \/ WithComponents \/ FromSlice
    \/ ClampScalar \/ ClampColor \/ Normalise \/ Invert
    \/ Mix \/ ToGreyscale
    \/ Add \/ Div \/ Mul \/ Sub
    \/ AddA \/ DivA \/ MulA \/ SubA
    \/ Drop

SpecPiecewise == Init /\ [][NextPiecewise]_vars

\* the calls of the caller that holds an Rgba<T>
NextRgba ==
    \/ RgbaNew \/ RgbaDefault \/ RgbaWithComponents \/ RgbaFromSlice \/ RgbRgba
    \/ RgbaSetR \/ RgbaSetG \/ RgbaSetB \/ RgbaSetA
    \/ RgbaGetters \/ RgbaRgb \/ RgbaComponents \/ RgbaToSlice
    \/ Drop

SpecRgba == Init /\ [][NextRgba]_vars

\* the calls of the caller that converts integral components
NextConv ==
    \/ FromIntegralComponents \/ FromIntegralSlice
    \/ RgbaFromIntegralComponents \/ RgbaFromIntegralSlice
    \/ Drop

SpecConv == Init /\ [][NextConv]_vars

(***************************************************************************)
(* Vocabulary of the properties.                                           *)
(***************************************************************************)
Channels == {"r", "g", "b"}

IsFloat == chan \in FloatTypes
IsIntegral == chan \in IntTypes

\* 0 <= x <= 1
InUnit(x) == le(zero(chan), x) /\ le(x, one(chan))

\* what clamping x to [lo, hi] means
Clamped(x, lo, hi) == IF lt(x, lo) THEN lo ELSE IF gt(x, hi) THEN hi ELSE x

\* no channel of the colour c is NaN
NoNaN(c) == \A k \in Channels : ~IsNaN(c[k])

(***************************************************************************)
(* C1. For every unsigned integral channel value x of width 8, 16, 32 or   *)
(* 64, inverted(x) is MAX - x, computed without underflow (so adding x     *)
(* back gives MAX), inverting twice gives x again, u8 0 inverts to 255 and *)
(* 255 to 0, and Rgb::invert applied twice returns the original colour.    *)
(***************************************************************************)
C1_IntegralInvert ==
    /\ inverted("u8", TRUE, IntVal(<<0>>)) = IntVal(<<255>>)
    /\ inverted("u8", TRUE, IntVal(<<255>>)) = IntVal(<<0>>)
    /\ (IsIntegral /\ last.op = "invert") =>
          /\ ~IsPanic(last.res)
          /\ \A k \in Channels :
                /\ ChannelAdd(TRUE, last.res[k], col[k]) = max_value(chan)
                /\ inverted(chan, overflow_checks, last.res[k]) = col[k]
          /\ invert(chan, overflow_checks, last.res) = col

C1_Witness ==
    /\ chan = "u64" /\ overflow_checks
    /\ last.op = "invert"
    /\ col = with_components(zero(chan), max_value(chan), one(chan))
    /\ last.res.r = max_value(chan) /\ last.res.g = zero(chan)

(***************************************************************************)
(* C2. For every non-NaN float channel value x, normalised(x) is x when    *)
(* 0 <= x <= 1, 0 when x < 0 and 1 when x > 1, so every channel of         *)
(* Rgb::normalise(c) lies in [0, 1].                                       *)
(***************************************************************************)
C2_FloatNormalise ==
    (IsFloat /\ last.op = "normalise") =>
        /\ NoNaN(col) =>
              /\ ~IsPanic(last.res)
              /\ \A k \in Channels :
                    last.res[k] = (IF lt(col[k], zero(chan)) THEN zero(chan)
                                   ELSE IF gt(col[k], one(chan)) THEN one(chan)
                                   ELSE col[k])
        /\ ~IsPanic(last.res) => \A k \in Channels : InUnit(last.res[k])

C2_Witness ==
    /\ chan = "f32"
    /\ last.op = "normalise"
    /\ col = with_components(Flt(-1, 2), Flt(1, 2), Flt(3, 2))
    /\ last.res = with_components(Flt(0, 1), Flt(1, 2), Flt(1, 1))

(***************************************************************************)
(* C3. For scalar bounds min <= max (min = max included) and non-NaN       *)
(* channel values, clamp gives a value between min and max: x itself when  *)
(* min <= x <= max, min when x < min and max when x > max.                 *)
(* Rgb::clamp_scalar applies that clamp with the same two bounds to r, g   *)
(* and b; (0.1, 0.9, 1.5) clamped to (0, 1) is (0.1, 0.9, 1.0).            *)
(***************************************************************************)
C3_ClampScalar ==
    /\ last.op = "clamp_scalar" =>
        clamp_scalar(with_components(Flt(1, 10), Flt(9, 10), Flt(3, 2)), Flt(0, 1), Flt(1, 1))
          = with_components(Flt(1, 10), Flt(9, 10), Flt(1, 1))
    /\ (last.op = "clamp_scalar" /\ le(last.min, last.max) /\ NoNaN(col)) =>
          /\ ~IsPanic(last.res)
          /\ \A k \in Channels :
                /\ last.res[k] = Clamped(col[k], last.min, last.max)
                /\ le(last.min, last.res[k]) /\ le(last.res[k], last.max)

C3_Witness ==
    /\ last.op = "clamp_scalar"
    /\ IsFloat
    /\ col = with_components(Flt(-1, 2), Flt(1, 2), Flt(3, 2))
    /\ last.min = Flt(0, 1) /\ last.max = Flt(1, 1)
    /\ last.res = with_components(Flt(0, 1), Flt(1, 2), Flt(1, 1))

(***************************************************************************)
(* C4. When min.k <= max.k for every channel k, Rgb::clamp_color gives the *)
(* colour whose channel k is clamp(c.k, min.k, max.k): it lies between     *)
(* min.k and max.k and depends on no other channel's bounds.  (A channel   *)
(* whose clamp does not return makes the whole call not return.)           *)
(***************************************************************************)
C4_ClampColor ==
    (last.op = "clamp_color" /\ \A k \in Channels : le(last.min[k], last.max[k])) =>
        IF NoNaN(col)
        THEN /\ ~IsPanic(last.res)
             /\ \A k \in Channels :
                   /\ last.res[k] = clamp(col[k], last.min[k], last.max[k])
                   /\ last.res[k] = Clamped(col[k], last.min[k], last.max[k])
                   /\ le(last.min[k], last.res[k]) /\ le(last.res[k], last.max[k])
        ELSE IsPanic(last.res)

C4_Witness ==
    /\ last.op = "clamp_color"
    /\ IsIntegral
    /\ last.min = with_components(Operand(chan, 0), Operand(chan, 1), Operand(chan, 2))
    /\ last.max = with_components(Operand(chan, 1), Operand(chan, 2), Operand(chan, 3))
    /\ col = with_components(max_value(chan), zero(chan), max_value(chan))
    /\ last.res = with_components(Operand(chan, 1), Operand(chan, 1), Operand(chan, 3))

(***************************************************************************)
(* C5. For Rgb colours a and b of one channel type, a + b, a - b, a * b    *)
(* and a / b are the colours whose r, g and b are a.r op b.r, a.g op b.g   *)
(* and a.b op b.b, wherever no channel overflows, a.k >= b.k in every      *)
(* channel of a subtraction and no channel of b is zero in a division.     *)
(***************************************************************************)
\* the scalar operation an operator name stands for
ChannelOp(op, oc, x, y) ==
    CASE op = "add" -> ChannelAdd(oc, x, y)
      [] op = "sub" -> ChannelSub(oc, x, y)
      [] op = "mul" -> ChannelMul(oc, x, y)
      [] op = "div" -> ChannelDiv(oc, x, y)

\* the operands a and b are in the domain the claims about op speak of
InDomain(op, a, b, ks) ==
    /\ \A k \in ks : ~IsPanic(ChannelOp(op, TRUE, a[k], b[k]))
    /\ op = "sub" => \A k \in ks : ge(a[k], b[k])
    /\ op = "div" => \A k \in ks : b[k] # zero(chan)

C5_RgbArithmetic ==
    (last.op \in {"add", "sub", "mul", "div"}
        /\ InDomain(last.op, col, last.other, Channels)) =>
        /\ ~IsPanic(last.res)
        /\ \A k \in Channels :
              last.res[k] = ChannelOp(last.op, overflow_checks, col[k], last.other[k])

C5_Witness ==
    /\ last.op = "div"
    /\ chan = "u32"
    /\ col = with_components(max_value(chan), IntBelowMax(chan, 1), one(chan))
    /\ last.other = with_components(Operand(chan, 1), Operand(chan, 2), Operand(chan, 3))
    /\ last.res.r = max_value(chan)
    /\ last.res.g = IntVal(<<Base - 1, Base - 1, Base - 1, (Base \div 2) - 1>>)
    /\ last.res.b = zero(chan)

(***************************************************************************)
(* C6. For Rgba colours a and b of one channel type with a.k >= b.k in     *)
(* every channel, a - b is the Rgba whose four channels are a.r - b.r,     *)
(* a.g - b.g, a.b - b.b and a.a - b.a.                                     *)
(***************************************************************************)
\* the operands of an Rgba operator are in the domain the claims speak of
RgbaInDomain(op, a, b) ==
    /\ InDomain(op, a.rgb, b.rgb, Channels)
    /\ InDomain(op, [a |-> a.a], [a |-> b.a], {"a"})

C6_RgbaSubtraction ==
    (last.op = "rgba_sub" /\ RgbaInDomain("sub", last.self, last.other)) =>
        /\ ~IsPanic(last.res)
        /\ \A k \in Channels :
              last.res.rgb[k] = ChannelSub(overflow_checks, last.self.rgb[k], last.other.rgb[k])
        /\ last.res.a = ChannelSub(overflow_checks, last.self.a, last.other.a)

(***************************************************************************)
(* C7. For Rgba colours a and b of one channel type, a + b, a * b and      *)
(* a / b (no channel of b zero in a division, no overflow) have the r, g   *)
(* and b of the same Rgb operation on a.rgb and b.rgb and the alpha        *)
(* a.a op b.a; (0.2, 0.2, 0.3, 0.3) + (0.3, 0.3, 0.2, 0.2) has all four    *)
(* channels equal to 0.5.                                                  *)
(***************************************************************************)
\* the Rgb operator an operator name stands for
RgbOp(op, oc, x, y) ==
    CASE op = "add" -> Rgb_add(oc, x, y)
      [] op = "sub" -> Rgb_sub(oc, x, y)
      [] op = "mul" -> Rgb_mul(oc, x, y)
      [] op = "div" -> Rgb_div(oc, x, y)

\* the operator an Rgba call stands for
OpOf(call) ==
    CASE call = "rgba_add" -> "add"
      [] call = "rgba_sub" -> "sub"
      [] call = "rgba_mul" -> "mul"
      [] call = "rgba_div" -> "div"

C7_RgbaArithmetic ==
    /\ last.op = "rgba_add" =>
        Rgba_add(FALSE,
                Rgba_with_components(Flt(1, 5), Flt(1, 5), Flt(3, 10), Flt(3, 10)),
                Rgba_with_components(Flt(3, 10), Flt(3, 10), Flt(1, 5), Flt(1, 5)))
          = Rgba_with_components(Flt(1, 2), Flt(1, 2), Flt(1, 2), Flt(1, 2))
    /\ (last.op \in {"rgba_add", "rgba_mul", "rgba_div"}
          /\ RgbaInDomain(OpOf(last.op), last.self, last.other)) =>
          /\ ~IsPanic(last.res)
          /\ last.res.rgb = RgbOp(OpOf(last.op), overflow_checks, last.self.rgb, last.other.rgb)
          /\ \A k \in Channels :
                last.res.rgb[k] = ChannelOp(OpOf(last.op), overflow_checks,
                                            last.self.rgb[k], last.other.rgb[k])
          /\ last.res.a = ChannelOp(OpOf(last.op), overflow_checks, last.self.a, last.other.a)

C7_Witness ==
    /\ last.op = "rgba_add"
    /\ chan = "f64"
    /\ last.self = Rgba_with_components(Flt(1, 2), Flt(0, 1), Flt(3, 2), Flt(1, 1))
    /\ last.other = Rgba_with_components(Flt(0, 1), Flt(1, 2), Flt(1, 1), Flt(3, 2))
    /\ last.res = Rgba_with_components(Flt(1, 2), Flt(1, 2), Flt(5, 2), Flt(5, 2))

(***************************************************************************)
(* C8 as stated. clamp_scalar with min > max, or clamp_color with          *)
(* min.k > max.k for some channel k, ends with the assertion failure       *)
(* whatever the value being clamped.                                       *)
(***************************************************************************)
\* the bounds of the last clamp call are out of order
Misordered ==
    \/ last.op = "clamp_scalar" /\ gt(last.min, last.max)
    \/ last.op = "clamp_color" /\ \E k \in Channels : gt(last.min[k], last.max[k])

C8_AlwaysAssertion ==
    Misordered => last.res = Panic("assert")

(***************************************************************************)
(* C8 amended. clamp_scalar with min > max, or clamp_color with            *)
(* min.k > max.k for some channel k, never returns a colour.  It ends with *)
(* the assertion failure, except when clamp_color meets a NaN channel with *)
(* ordered bounds before the first channel whose bounds are out of order   *)
(* (channels are clamped in the order r, g, b): then it ends with the      *)
(* panic of unwrapping None.  A value lying between max and min makes no   *)
(* difference.                                                             *)
(***************************************************************************)
\* the channels in the order the clamps are evaluated
ChannelOrder == <<"r", "g", "b">>

\* the first channel of the last clamp_color call whose bounds are out of order
FirstMisordered ==
    CHOOSE i \in 1..3 :
        /\ gt(last.min[ChannelOrder[i]], last.max[ChannelOrder[i]])
        /\ \A j \in 1..(i - 1) : ~gt(last.min[ChannelOrder[j]], last.max[ChannelOrder[j]])

C8_MisorderedBoundsPanic ==
    Misordered =>
        /\ IsPanic(last.res)
        /\ last.op = "clamp_scalar" => last.res = Panic("assert")
        /\ last.op = "clamp_color" =>
              last.res = (IF \E j \in 1..(FirstMisordered - 1) : IsNaN(col[ChannelOrder[j]])
                          THEN Panic("unwrap")
                          ELSE Panic("assert"))

C8_Witness ==
    /\ last.op = "clamp_color"
    /\ chan = "f32"
    /\ last.min = with_components(Flt(0, 1), Flt(1, 2), Flt(1, 1))
    /\ last.max = with_components(Flt(1, 2), Flt(1, 2), Flt(1, 2))
    /\ col = with_components(Flt(1, 2), Flt(1, 2), Flt(1, 2))
    /\ last.res = Panic("assert")

(***************************************************************************)
(* C9. For Rgb and Rgba colours with float channels, every channel of      *)
(* a + b, a - b, a * b and a / b lies in [0, 1], whatever the operands.    *)
(***************************************************************************)
C9_FloatArithmeticClamped ==
    /\ (IsFloat /\ last.op \in {"add", "sub", "mul", "div"} /\ ~IsPanic(last.res)) =>
          \A k \in Channels : InUnit(last.res[k])
    /\ (IsFloat /\ last.op \in {"rgba_add", "rgba_sub", "rgba_mul", "rgba_div"}
          /\ ~IsPanic(last.res)) =>
          /\ \A k \in Channels : InUnit(last.res.rgb[k])
          /\ InUnit(last.res.a)

(***************************************************************************)
(* C10. Every channel of the float Rgb value the caller holds lies in      *)
(* [0, 1] after any sequence of constructions, setter calls and operators. *)
(***************************************************************************)
C10_ChannelsAlwaysNormalised ==
    IsFloat => \A k \in Channels : InUnit(col[k])

(***************************************************************************)
(* C11. Every Color operation is provided for Rgba as well as for Rgb:     *)
(* invert, normalise, clamp_scalar, clamp_color and mix can be called on   *)
(* the Rgba value the caller holds (and act on its four channels).         *)
(***************************************************************************)
\* the colour type of a value, told by its fields
TypeOf(c) == IF "a" \in DOMAIN c THEN "Rgba" ELSE "Rgb"

C11_RgbaColorOperations ==
    /\ {"invert", "normalise", "clamp_scalar", "clamp_color", "mix"}
          \subseteq TraitOperations(TypeOf(col))
    /\ {"invert", "normalise", "clamp_scalar", "clamp_color", "mix"}
          \subseteq TraitOperations(TypeOf(cola))

(***************************************************************************)
(* C12. Rgb::new() and Rgb::default() are the colour with r = g = b = 0;   *)
(* Rgba::new() and Rgba::default() have r = g = b = 0 and the alpha at the *)
(* top of the channel type's range: 1.0 for floats, MAX for integers.      *)
(***************************************************************************)
\* the top of the normalised range of channel type t
Opaque(t) == IF t \in IntTypes THEN max_value(t) ELSE Flt(1, 1)

C12_NewAndDefault ==
    /\ new(chan) = with_components(zero(chan), zero(chan), zero(chan))
    /\ default(chan) = new(chan)
    /\ last.op \in {"rgba_new", "rgba_default"} =>
          /\ Rgba_rgb(last.res) = new(chan)
          /\ Rgba_a(last.res) = Opaque(chan)

(***************************************************************************)
(* C13. Construction and decomposition keep every channel value and its    *)
(* position: the getters of Rgba::with_components(r, g, b, a) return       *)
(* exactly r, g, b, a (unclamped; (0.5, 0.2, 0.2, 0.7) reads back as       *)
(* itself); from_slice(c.to_slice()) is c again, for Rgb and Rgba;         *)
(* components() lists the channels in the order r, g, b (, a); and         *)
(* c.rgba(a).rgb() is c and c.rgba(a).a() is a.  (Being the same colour    *)
(* means holding the same value in every channel.)                         *)
(***************************************************************************)
C13_ConstructionRoundTrips ==
    /\ LET c == Rgba_with_components(Flt(1, 2), Flt(1, 5), Flt(1, 5), Flt(7, 10))
       IN  <<Rgba_r(c), Rgba_g(c), Rgba_b(c), Rgba_a(c)>>
              = <<Flt(1, 2), Flt(1, 5), Flt(1, 5), Flt(7, 10)>>
    /\ last.op \in {"rgba_with_components", "rgba_from_slice"} =>
          /\ Rgba_r(last.res) = last.args[1]
          /\ Rgba_g(last.res) = last.args[2]
          /\ Rgba_b(last.res) = last.args[3]
          /\ Rgba_a(last.res) = last.args[4]
    /\ last.op = "rgba" =>
          /\ Rgba_rgb(last.res) = last.self
          /\ Rgba_a(last.res) = last.arg
    /\ last.op = "rgba_to_slice" =>
          /\ last.res = <<cola.rgb.r, cola.rgb.g, cola.rgb.b, cola.a>>
          /\ Rgba_from_slice(last.res) = cola
    /\ last.op = "rgba_components" =>
          last.res = <<cola.rgb.r, cola.rgb.g, cola.rgb.b, cola.a>>
    /\ last.op = "rgba_getters" =>
          last.res = <<cola.rgb.r, cola.rgb.g, cola.rgb.b, cola.a>>
    /\ last.op = "rgba_rgb" =>
          /\ rgba(last.res, Rgba_a(cola)) = cola
          /\ to_slice(last.res) = <<cola.rgb.r, cola.rgb.g, cola.rgb.b>>
          /\ from_slice(to_slice(last.res)) = last.res
          /\ components(last.res) = <<cola.rgb.r, cola.rgb.g, cola.rgb.b>>

C13_Witness ==
    /\ last.op = "rgba_to_slice"
    /\ chan = "f64"
    /\ cola = Rgba_with_components(Flt(-1, 2), Flt(1, 2), Flt(3, 2), NaN)
    /\ last.res = <<Flt(-1, 2), Flt(1, 2), Flt(3, 2), NaN>>

(***************************************************************************)
(* C14. For every unsigned integer v of width W, integral_to_float(v) is   *)
(* v / MAX_W as the float type computes it: the quotient of the floats     *)
(* nearest to v and to MAX_W, within four units of roundoff of v / MAX_W   *)
(* and the correctly rounded v / MAX_W when the float type holds every     *)
(* integer of width W.  0 maps to 0.0, MAX_W maps to 1.0, every result     *)
(* lies in [0, 1] and the map keeps the order of its arguments.            *)
(* from_integral_components and from_integral_slice of Rgb and Rgba apply  *)
(* the map to each channel (and alpha) on its own, so channel k reads back *)
(* as k / MAX_W.                                                           *)
(***************************************************************************)
\* the floats 0.0 and 1.0 of the type ft
QuotZero(ft) == cast(ft, zero("u8"))
QuotOne(ft) == cast(ft, one("u8"))

\* the channels of an Rgb or Rgba colour in the order r, g, b (, a)
ChannelsOf(c) ==
    IF TypeOf(c) = "Rgba" THEN Rgba_to_slice(c) ELSE to_slice(c)

\* "Less" or "Equal"
AtMost(cmp) == cmp \in {"Less", "Equal"}

\* |a - b| and b
Apart(a, b) ==
    [err |-> IF LimbsCmp(a, b, Len(a)) = "Less" THEN LimbsSub(b, a) ELSE LimbsSub(a, b),
     v |-> b]

\* |res * MAX - v| and v, both in units of 2^res.e, for the result res of
\* converting v of the type it; res * MAX is res * 2^W - res for the width
\* W of the type
ScaledError(it, res, v) ==
    CHOOSE s \in {CHOOSE t \in {Apart(a, b) : a \in {LimbsSub(LimbsShl(m, 8 * NumLimbs(it)), m)},
                                              b \in {LimbsShl(w, 0 - res.e)}} : TRUE :
                     m \in {Pad(FromPair(res.m), 16)}, w \in {Pad(v.l, 16)}} : TRUE

\* res is within 2^(2-p) of v / MAX, relatively; and within half a unit of
\* its last place when the casts of the integer type are exact
CloseTo(ft, it, res, v) ==
    LET p == Significand(ft)
        MAX == max_value(it)
    IN  /\ res.e <= 0
        /\ \A s \in {ScaledError(it, res, v)} :
              /\ \A far \in {LimbsShl(s.err, p - 2)} : AtMost(LimbsCmp(far, s.v, 16))
              /\ 8 * NumLimbs(it) <= p =>
                    \A twice \in {LimbsShl(s.err, 1)}, M \in {Pad(MAX.l, 16)} :
                        AtMost(LimbsCmp(twice, M, 16))

C14_IntegralToFloat ==
    last.op \in {"from_integral_components", "from_integral_slice",
                 "rgba_from_integral_components", "rgba_from_integral_slice"} =>
        /\ last.op = "from_integral_components" =>
              /\ integral_to_float("f32", "u8", max_value("u8")) = QuotOne("f32")
              /\ integral_to_float("f32", "u8", zero("u8")) = QuotZero("f32")
        /\ \A res \in {ChannelsOf(last.res)}, MAX \in {max_value(last.int)},
                 nought \in {QuotZero(chan)}, unit \in {QuotOne(chan)} :
              /\ Len(res) = Len(last.args)
              /\ \A i \in 1..Len(res) :
                    \A v \in {last.args[i]}, f \in {res[i]} :
                       /\ f = integral_to_float(chan, last.int, v)
                       /\ CloseTo(chan, last.int, f, v)
                       /\ v = zero(last.int) => f = nought
                       /\ v = MAX => f = unit
                       /\ AtMost(QuotCmp(nought, f))
                       /\ AtMost(QuotCmp(f, unit))
                       /\ \A j \in 1..Len(res) :
                             le(v, last.args[j]) => AtMost(QuotCmp(f, res[j]))

C14_Witness ==
    /\ last.op = "rgba_from_integral_components"
    /\ chan = "f32"
    /\ last.int = "u32"
    /\ last.args = <<zero("u32"), one("u32"), PowerPlusOne("u32", 24), max_value("u32")>>
    /\ Rgba_r(last.res) = QuotZero("f32")
    /\ Rgba_a(last.res) = QuotOne("f32")
    /\ QuotCmp(Rgba_g(last.res), Rgba_b(last.res)) = "Less"
    \* 2^24 + 1 is cast to 2^24 and MAX to 2^32: the result is 2^-8
    /\ Rgba_b(last.res) = Bin([hi |-> 0, lo |-> 2^23], 0 - 31)

(***************************************************************************)
(* C15. For every non-NaN float channel value x, inverted(x) is            *)
(* 1 - normalised(x) and so lies in [0, 1]; inverting twice gives          *)
(* normalised(x), which is x itself when x is already in [0, 1].           *)
(***************************************************************************)
C15_FloatInvert ==
    (IsFloat /\ last.op = "invert") =>
        /\ \A k \in Channels :
              ~IsNaN(col[k]) =>
                 LET y == inverted(chan, overflow_checks, col[k])
                 IN  /\ ~IsPanic(y)
                     /\ y = FltSub(Flt(1, 1), Clamped(col[k], Flt(0, 1), Flt(1, 1)))
                     /\ y = FltSub(one(chan), normalised(chan, col[k]))
                     /\ InUnit(y)
                     /\ inverted(chan, overflow_checks, y) = normalised(chan, col[k])
                     /\ InUnit(col[k]) => inverted(chan, overflow_checks, y) = col[k]
        /\ NoNaN(col) =>
              /\ ~IsPanic(last.res)
              /\ \A k \in Channels :
                    last.res[k] = inverted(chan, overflow_checks, col[k])

C15_Witness ==
    /\ last.op = "invert"
    /\ chan = "f64"
    /\ col = with_components(PosInf, Flt(1, 2), Flt(-1, 2))
    /\ last.res = with_components(Flt(0, 1), Flt(1, 2), Flt(1, 1))

(***************************************************************************)
(* C16 as stated. When a channel to be clamped is NaN and min <= max,      *)
(* clamp, normalised, clamp_scalar and normalise return normally and the   *)
(* result channel is NaN.                                                  *)
(***************************************************************************)
\* the last call clamped a colour with a NaN channel between ordered bounds
ClampedNaN ==
    /\ \E k \in Channels : IsNaN(col[k])
    /\ \/ last.op = "clamp_scalar" /\ le(last.min, last.max)
       \/ last.op = "normalise"

C16_NaNPassesThrough ==
    ClampedNaN =>
        /\ ~IsPanic(last.res)
        /\ \A k \in Channels : IsNaN(col[k]) => IsNaN(last.res[k])

(***************************************************************************)
(* C16 amended. When a channel to be clamped is NaN and min <= max, clamp  *)
(* and the float normalised do not return: partial_min finds NaN           *)
(* incomparable with max and the unwrap of its None panics.  So            *)
(* clamp_scalar and normalise on a colour with a NaN channel return no     *)
(* colour either.                                                          *)
(***************************************************************************)
C16_NaNPanics ==
    ClampedNaN =>
        /\ last.res = Panic("unwrap")
        /\ \A k \in Channels :
              IsNaN(col[k]) =>
                 IF last.op = "clamp_scalar"
                 THEN clamp(col[k], last.min, last.max) = Panic("unwrap")
                 ELSE normalised(chan, col[k]) = Panic("unwrap")

C16_Witness ==
    /\ last.op = "clamp_scalar"
    /\ chan = "f32"
    /\ col = with_components(Flt(1, 2), NaN, Flt(1, 2))
    /\ last.min = Flt(0, 1) /\ last.max = Flt(1, 1)
    /\ last.res = Panic("unwrap")

(***************************************************************************)
(* C17. Each setter replaces exactly one channel with exactly the value    *)
(* supplied, unclamped, and leaves every other channel as it was: set_r,   *)
(* set_g and set_b of Rgb (here the Rgb inside the Rgba), and set_r,       *)
(* set_g, set_b and set_a of Rgba, which leave alpha, respectively r, g    *)
(* and b, unchanged; after any sequence of setter calls.                   *)
(***************************************************************************)
\* the channel a setter call writes
Written(call) ==
    CASE call = "rgba_set_r" -> 1
      [] call = "rgba_set_g" -> 2
      [] call = "rgba_set_b" -> 3
      [] call = "rgba_set_a" -> 4

C17_SetterFrame ==
    last.op \in {"rgba_set_r", "rgba_set_g", "rgba_set_b", "rgba_set_a"} =>
        LET after == <<cola.rgb.r, cola.rgb.g, cola.rgb.b, cola.a>>
            before == <<last.old.rgb.r, last.old.rgb.g, last.old.rgb.b, last.old.a>>
            w == Written(last.op)
            \* the same setter called on the Rgb alone
            inner == CASE w = 1 -> set_r(last.old.rgb, last.arg)
                     [] w = 2 -> set_g(last.old.rgb, last.arg)
                     [] w = 3 -> set_b(last.old.rgb, last.arg)
                     [] w = 4 -> last.old.rgb
        IN  /\ \A i \in 1..4 : after[i] = (IF i = w THEN last.arg ELSE before[i])
            /\ \A i \in 1..3 : to_slice(inner)[i] = (IF i = w THEN last.arg ELSE before[i])
            /\ Rgba_rgb(cola) = inner

C17_Witness ==
    /\ last.op = "rgba_set_b"
    /\ chan = "f32"
    /\ last.arg = Flt(3, 2)
    /\ last.old = Rgba_with_components(Flt(-1, 2), NaN, Flt(1, 2), Flt(1, 2))
    /\ cola = Rgba_with_components(Flt(-1, 2), NaN, Flt(3, 2), Flt(1, 2))

(***************************************************************************)
(* C19. For Rgb and Rgba colours with unsigned integral channels, a / b    *)
(* with a zero in at least one channel of b (alpha included for Rgba)      *)
(* returns no colour: it ends with the integer division-by-zero panic,     *)
(* even when every other channel of b is non-zero.                         *)
(***************************************************************************)
\* the last call divided by a colour with a zero channel
ZeroDivisor ==
    \/ last.op = "div" /\ \E k \in Channels : last.other[k] = zero(chan)
    \/ last.op = "rgba_div"
          /\ \/ \E k \in Channels : last.other.rgb[k] = zero(chan)
             \/ last.other.a = zero(chan)

C19_IntegerDivisionByZero ==
    (IsIntegral /\ ZeroDivisor) => last.res = Panic("divide by zero")

C19_Witness ==
    /\ last.op = "rgba_div"
    /\ chan = "u16"
    /\ last.self = Rgba_with_components(max_value(chan), one(chan), zero(chan), one(chan))
    /\ last.other = Rgba_with_components(Operand(chan, 3), Operand(chan, 2),
                                         Operand(chan, 1), Operand(chan, 0))
    /\ last.res = Panic("divide by zero")

(***************************************************************************)
(* C18 as stated. In every Color operation and arithmetic operator the     *)
(* outcome for channel k (its value, or the failure) is determined by      *)
(* channel k of the operands alone (and the scalar bounds of               *)
(* clamp_scalar): a call agrees on it with any call whose operands have    *)
(* the same channel k, such as the call whose operands carry channel k's   *)
(* values in every channel.  (luminance returns one scalar, the same for   *)
(* every colour, and has no channel outcome.)                              *)
(***************************************************************************)
\* the calls that return a colour computed from the operands
RgbCalls ==
    {"clamp_scalar", "clamp_color", "normalise", "invert", "mix", "to_greyscale",
     "add", "sub", "mul", "div"}
RgbaCalls == {"rgba_add", "rgba_sub", "rgba_mul", "rgba_div"}

\* the channels of the colours the last call works on
ChannelsOfCall == IF last.op \in RgbaCalls THEN {"r", "g", "b", "a"} ELSE Channels

\* channel k of an Rgb or Rgba colour
ChannelAt(c, k) ==
    IF TypeOf(c) = "Rgba" THEN (IF k = "a" THEN c.a ELSE c.rgb[k]) ELSE c[k]

\* the colour of the type of c that has channel k of c in every channel
Uniform(c, k) ==
    IF TypeOf(c) = "Rgba"
    THEN Rgba_with_components(ChannelAt(c, k), ChannelAt(c, k),
                              ChannelAt(c, k), ChannelAt(c, k))
    ELSE with_components(c[k], c[k], c[k])

\* the last call made again with channel k of each operand in every channel
Rerun(k) ==
    LET self == Uniform(col, k)
    IN  CASE last.op = "clamp_scalar" -> clamp_scalar(self, last.min, last.max)
          [] last.op = "clamp_color" ->
                clamp_color(self, Uniform(last.min, k), Uniform(last.max, k))
          [] last.op = "normalise" -> normalise(chan, self)
          [] last.op = "invert" -> invert(chan, overflow_checks, self)
          [] last.op = "mix" -> mix(overflow_checks, self, Uniform(last.other, k))
          [] last.op = "to_greyscale" -> to_greyscale(self)
          [] last.op = "add" -> Rgb_add(overflow_checks, self, Uniform(last.other, k))
          [] last.op = "sub" -> Rgb_sub(overflow_checks, self, Uniform(last.other, k))
          [] last.op = "mul" -> Rgb_mul(overflow_checks, self, Uniform(last.other, k))
          [] last.op = "div" -> Rgb_div(overflow_checks, self, Uniform(last.other, k))
          [] last.op = "rgba_add" ->
                Rgba_add(overflow_checks, Uniform(last.self, k), Uniform(last.other, k))
          [] last.op = "rgba_sub" ->
                Rgba_sub(overflow_checks, Uniform(last.self, k), Uniform(last.other, k))
          [] last.op = "rgba_mul" ->
                Rgba_mul(overflow_checks, Uniform(last.self, k), Uniform(last.other, k))
          [] last.op = "rgba_div" ->
                Rgba_div(overflow_checks, Uniform(last.self, k), Uniform(last.other, k))

\* what a call that ended with res gave for channel k
Outcome(res, k) == IF IsPanic(res) THEN res ELSE ChannelAt(res, k)

C18_NoCrossChannelCoupling ==
    last.op \in RgbCalls \cup RgbaCalls =>
        \A k \in ChannelsOfCall : Outcome(last.res, k) = Outcome(Rerun(k), k)

(***************************************************************************)
(* C18 amended. The value of channel k of the result is determined by      *)
(* channel k of the operands alone whenever the call returns a colour:     *)
(* two calls that agree on channel k of the operands and both return agree *)
(* on channel k of the result.  A channel whose own operation fails makes  *)
(* the whole call fail whatever the other channels hold, and a call fails  *)
(* only with the failure of one of its channels; so a failure in one       *)
(* channel does withhold the results of the others.                        *)
(***************************************************************************)
C18_CouplingOnlyThroughFailure ==
    last.op \in RgbCalls \cup RgbaCalls =>
        /\ \A k \in ChannelsOfCall :
              LET alone == Rerun(k)
              IN  /\ IsPanic(alone) => IsPanic(last.res)
                  /\ ~IsPanic(last.res) =>
                        ChannelAt(last.res, k) = ChannelAt(alone, k)
        /\ IsPanic(last.res) => \E k \in ChannelsOfCall : Rerun(k) = last.res

C18_Witness ==
    /\ last.op = "add"
    /\ chan = "u8" /\ overflow_checks
    /\ col = with_components(max_value(chan), zero(chan), one(chan))
    /\ last.other = with_components(one(chan), one(chan), one(chan))
    /\ last.res = Panic("overflow")
    /\ Rerun("g") = with_components(one(chan), one(chan), one(chan))

=============================================================================
